---- MODULE Spec2Model ----
(***************************************************************************)
(* Model of src/main.py: the setuid/setgid privilege remover.              *)
(*                                                                         *)
(* main() loads the configuration, validates --monitor-time, walks the     *)
(* tree for setuid/setgid files, samples the process table for the         *)
(* monitoring duration, and then, record by record, checks whether the     *)
(* record's path was observed and runs `chmod a-s` on it when it was not.  *)
(*                                                                         *)
(* Time is counted in ticks of 0.1 s, the argument of time.sleep on line   *)
(* 118.  Modes are st_mode values (file type bits included).               *)
(***************************************************************************)
EXTENDS Integers, Sequences, FiniteSets

\* ---------------------------------------------------------------- bounds
MaxMonitorTime == 1     \* largest --monitor-time value tried, in seconds
MaxSampleTicks == 2     \* longest time one process-table sample may take

\* ------------------------------------------------------ program constants
S_ISUID        == 2048  \* 0o4000
S_ISGID        == 1024  \* 0o2000
TicksPerSecond == 10    \* 1 / 0.1
PollTicks      == 1     \* time.sleep(0.1)

\* ------------------------------------------------------------ filesystem
\* Three regular files and one symbolic link to the first of them, in the
\* order os.walk lists them.
WalkOrder == <<"/bin/a", "/bin/b", "/bin/c", "/opt/l">>
Paths     == {WalkOrder[k] : k \in 1..Len(WalkOrder)}
Files     == {"/bin/a", "/bin/b", "/bin/c"}

\* The file a path refers to: os.stat and chmod both follow symbolic links.
Target(p) == IF p = "/opt/l" THEN "/bin/a" ELSE p

Dir(p) == IF p = "/opt/l" THEN "/opt" ELSE "/bin"

\* 0o100755, 0o104755, 0o102755, 0o107755
Modes == {33261, 35309, 34285, 36845}

\* The modes each file may start with: /bin/a is privileged, /bin/b is
\* unprivileged, setuid or setgid, /bin/c is not privileged.
InitialModes(f) ==
    IF f = "/bin/a" THEN {35309, 36845}
    ELSE IF f = "/bin/b" THEN {33261, 35309, 34285}
    ELSE {33261}

\* The files this process may be denied to change: none, or /bin/b.
Denied == {{}, {"/bin/b"}}

\* Entries another process may unlink during the run.
Deletable == {"/bin/a"}

\* Executable paths psutil can report (resolved paths of regular files).
ExePaths == {"/bin/a", "/bin/b"}

\* What --config can point at.
ConfigKinds == {"dict", "missing", "bad_yaml", "not_dict"}

VARIABLES
    pc,                  \* position of main()
    config,              \* what the --config file holds
    monitor_time,        \* args.monitor_time
    dry_run,             \* args.dry_run
    exists,              \* directory entry present, per path
    mode,                \* st_mode of each regular file
    mode0,               \* st_mode of each regular file when the run began
    chmod_ok,            \* files whose mode this process may change
    opt_readable,        \* whether /opt can be listed
    scan_idx,            \* position of the walk in WalkOrder
    setuid_setgid_files, \* the inventory: sequence of <<path, mode>>
    elapsed,             \* time.time() - start_time, in ticks
    created_processes,   \* the set monitor_processes accumulates
    last_sample,         \* executables the latest sample showed
    last_skipped,        \* the latest sample held a process that was skipped
    monitored_processes, \* the set main() received from the monitor
    i,                   \* index of the record the main loop is at
    decisions,           \* one <<path, used>> per check_privilege_usage call
    outcomes             \* one <<path, result>> per remove_privileges call

vars == <<pc, config, monitor_time, dry_run, exists, mode, mode0, chmod_ok,
          opt_readable, scan_idx, setuid_setgid_files, elapsed,
          created_processes, last_sample, last_skipped, monitored_processes,
          i, decisions, outcomes>>

inputs   == <<config, monitor_time, dry_run, mode0, chmod_ok, opt_readable>>
scanVars == <<scan_idx, setuid_setgid_files>>
monVars  == <<elapsed, created_processes, last_sample, last_skipped>>
loopVars == <<i, decisions, outcomes>>
fsVars   == <<exists, mode>>

\* ---------------------------------------------------------------- helpers
HasBit(m, b) == (m \div b) % 2 = 1

ClearBit(m, b) == IF HasBit(m, b) THEN m - b ELSE m

\* A scanner that tests the setuid bit only.
IsPrivileged_setuid_only(m) == HasBit(m, S_ISUID)

\* line 86: st_mode & (0o4000 | 0o2000)
IsPrivileged(m) == HasBit(m, S_ISUID) \/ HasBit(m, S_ISGID)

\* A mode change that flips the two bits instead of clearing them.
ChmodAS_toggle(m) ==
    LET u == IF HasBit(m, S_ISUID) THEN m - S_ISUID ELSE m + S_ISUID
    IN  IF HasBit(u, S_ISGID) THEN u - S_ISGID ELSE u + S_ISGID

\* `chmod a-s`: clears setuid (u-s) and setgid (g-s), nothing else.
ChmodAS(m) == ClearBit(ClearBit(m, S_ISUID), S_ISGID)

\* os.walk yields the entry: it is present and its directory can be listed.
Listed(p) == exists[p] /\ (Dir(p) = "/opt" => opt_readable)

\* os.stat(filepath) succeeds: the entry and what it points at both exist.
StatOk(p) == exists[p] /\ exists[Target(p)]

\* `chmod a-s filepath` exits 0.
ChmodSucceeds(p) == StatOk(p) /\ Target(p) \in chmod_ok

\* line 61: yaml.safe_load returned a dict.
ConfigLoads(c) == c = "dict"

\* A validation that lets zero through.
ValidMonitorTime_nonneg(t) == t >= 0

\* line 172
ValidMonitorTime(t) == t > 0

\* A walk that stops one entry short.
ScanFinished_early(idx) == idx >= Len(WalkOrder)

\* line 81: the generator os.walk returned is exhausted.
ScanFinished(idx) == idx > Len(WalkOrder)

\* line 109: the loop condition.
MonitorContinues(e, duration) == e < duration * TicksPerSecond

\* An accumulator that keeps the latest sample only.
AddSample_overwrite(created, sample) == sample

\* line 114: created_processes.add(exe) for every exe of the sample.
AddSample(created, sample) == created \cup sample

\* A membership test that resolves symbolic links first.
check_privilege_usage_resolved(filepath, monitored) == Target(filepath) \in monitored

\* line 135
check_privilege_usage(filepath, monitored) == filepath \in monitored

\* A revoker that ignores the dry-run flag.
RevokedMode_always(m, dry) == ChmodAS(m)

\* lines 145-149: the mode remove_privileges leaves on the file.
RevokedMode(m, dry) == IF dry THEN m ELSE ChmodAS(m)

\* A revoker that lets the failure reach main()'s handler (lines 189-191).
AfterFailure_propagates == "exit1"

\* lines 150-153: where main() continues after a caught failure.
AfterFailure == "correlate"

Pipeline == {"scan", "monitor", "monitor_return", "correlate", "revoke"}

\* ------------------------------------------------------------------- Init
Init ==
    /\ pc = "load_config"
    /\ config \in ConfigKinds
    /\ monitor_time \in -1..MaxMonitorTime
    /\ dry_run \in BOOLEAN
    /\ exists = [p \in Paths |-> TRUE]
    /\ mode \in {m \in [Files -> Modes] : \A f \in Files : m[f] \in InitialModes(f)}
    /\ mode0 = mode
    /\ chmod_ok \in {Files \ d : d \in Denied}
    /\ opt_readable \in BOOLEAN
    /\ scan_idx = 1
    /\ setuid_setgid_files = <<>>
    /\ elapsed = 0
    /\ created_processes = {}
    /\ last_sample = {}
    /\ last_skipped = FALSE
    /\ monitored_processes = {}
    /\ i = 1
    /\ decisions = <<>>
    /\ outcomes = <<>>

\* ---------------------------------------------------------------- actions
\* lines 163-164: load_config returns.
LoadConfigOk ==
    /\ pc = "load_config"
    /\ ConfigLoads(config)
    /\ pc' = "validate"
    /\ UNCHANGED <<inputs, fsVars, scanVars, monVars, monitored_processes, loopVars>>

\* lines 165-167: load_config raised; sys.exit(1).
LoadConfigFail ==
    /\ pc = "load_config"
    /\ ~ConfigLoads(config)
    /\ pc' = "exit1"
    /\ UNCHANGED <<inputs, fsVars, scanVars, monVars, monitored_processes, loopVars>>

\* lines 169-175: monitor_time accepted.
ValidateOk ==
    /\ pc = "validate"
    /\ ValidMonitorTime(monitor_time)
    /\ pc' = "scan"
    /\ UNCHANGED <<inputs, fsVars, scanVars, monVars, monitored_processes, loopVars>>

\* lines 172-174: monitor_time rejected; sys.exit(1).
ValidateFail ==
    /\ pc = "validate"
    /\ ~ValidMonitorTime(monitor_time)
    /\ pc' = "exit1"
    /\ UNCHANGED <<inputs, fsVars, scanVars, monVars, monitored_processes, loopVars>>

\* lines 81-90: one entry of the walk.
ScanStep ==
    /\ pc = "scan"
    /\ ~ScanFinished(scan_idx)
    /\ LET p == WalkOrder[scan_idx]
       IN  setuid_setgid_files' =
               IF Listed(p) /\ StatOk(p) /\ IsPrivileged(mode[Target(p)])
               THEN Append(setuid_setgid_files, <<p, mode[Target(p)]>>)
               ELSE setuid_setgid_files
    /\ scan_idx' = scan_idx + 1
    /\ UNCHANGED <<pc, inputs, fsVars, monVars, monitored_processes, loopVars>>

\* lines 93, 177-178, 104-106: the walk is over; monitor_processes starts.
ScanDone ==
    /\ pc = "scan"
    /\ ScanFinished(scan_idx)
    /\ pc' = "monitor"
    /\ elapsed' = 0
    /\ created_processes' = {}
    /\ UNCHANGED <<inputs, fsVars, scanVars, last_sample, last_skipped,
                   monitored_processes, loopVars>>

\* lines 109-118: one pass of the sampling loop.  The sample takes `took`
\* ticks and shows the executables `sample`; `skip` says that some process
\* had no resolvable executable (exe is None, or NoSuchProcess,
\* AccessDenied, ZombieProcess was raised for it).
MonitorIterate ==
    /\ pc = "monitor"
    /\ MonitorContinues(elapsed, monitor_time)
    /\ \E sample \in SUBSET ExePaths, skip \in BOOLEAN, took \in 0..MaxSampleTicks :
          /\ created_processes' = AddSample(created_processes, sample)
          /\ last_sample' = sample
          /\ last_skipped' = skip
          /\ elapsed' = elapsed + took + PollTicks
    /\ UNCHANGED <<pc, inputs, fsVars, scanVars, monitored_processes, loopVars>>

\* lines 119-120: the sample raised some other exception after showing
\* `sample`; the loop is left without sleeping.
MonitorSampleError ==
    /\ pc = "monitor"
    /\ MonitorContinues(elapsed, monitor_time)
    /\ \E sample \in SUBSET ExePaths, took \in 0..MaxSampleTicks :
          /\ created_processes' = AddSample(created_processes, sample)
          /\ last_sample' = sample
          /\ elapsed' = elapsed + took
    /\ last_skipped' = FALSE
    /\ pc' = "monitor_return"
    /\ UNCHANGED <<inputs, fsVars, scanVars, monitored_processes, loopVars>>

\* lines 109, 121-122: the loop condition is false.
MonitorExit ==
    /\ pc = "monitor"
    /\ ~MonitorContinues(elapsed, monitor_time)
    /\ pc' = "monitor_return"
    /\ UNCHANGED <<inputs, fsVars, scanVars, monVars, monitored_processes, loopVars>>

\* lines 123, 180-181: main() receives the set; the monitor's locals are gone.
MonitorReturn ==
    /\ pc = "monitor_return"
    /\ monitored_processes' = created_processes
    /\ created_processes' = {}
    /\ last_sample' = {}
    /\ last_skipped' = FALSE
    /\ elapsed' = 0
    /\ pc' = "correlate"
    /\ UNCHANGED <<inputs, fsVars, scanVars, loopVars>>

\* lines 183-187: the loop takes record i and asks check_privilege_usage.
\* A used file is kept (line 187) and the loop moves on.
Correlate ==
    /\ pc = "correlate"
    /\ i <= Len(setuid_setgid_files)
    /\ LET filepath == setuid_setgid_files[i][1]
           used == check_privilege_usage(filepath, monitored_processes)
       IN  /\ decisions' = Append(decisions, <<filepath, used>>)
           /\ IF used
              THEN pc' = "correlate" /\ i' = i + 1
              ELSE pc' = "revoke" /\ i' = i
    /\ UNCHANGED <<inputs, fsVars, scanVars, monVars, monitored_processes, outcomes>>

\* lines 145-149: remove_privileges returns normally.
RevokeOk ==
    /\ pc = "revoke"
    /\ LET filepath == setuid_setgid_files[i][1]
       IN  /\ dry_run \/ ChmodSucceeds(filepath)
           /\ mode' = [mode EXCEPT ![Target(filepath)] = RevokedMode(@, dry_run)]
           /\ outcomes' = Append(outcomes,
                  <<filepath, IF dry_run THEN "would_remove" ELSE "removed">>)
    /\ pc' = "correlate"
    /\ i' = i + 1
    /\ UNCHANGED <<inputs, exists, scanVars, monVars, monitored_processes, decisions>>

\* lines 146, 150-151: chmod exited non-zero; the error is logged.
RevokeFail ==
    /\ pc = "revoke"
    /\ ~dry_run
    /\ LET filepath == setuid_setgid_files[i][1]
       IN  /\ ~ChmodSucceeds(filepath)
           /\ outcomes' = Append(outcomes, <<filepath, "failed">>)
    /\ pc' = AfterFailure
    /\ i' = IF pc' = "correlate" THEN i + 1 ELSE i
    /\ UNCHANGED <<inputs, fsVars, scanVars, monVars, monitored_processes, decisions>>

\* line 183: the inventory is exhausted; main() returns, exit status 0.
LoopDone ==
    /\ pc = "correlate"
    /\ i > Len(setuid_setgid_files)
    /\ pc' = "done"
    /\ UNCHANGED <<inputs, fsVars, scanVars, monVars, monitored_processes, loopVars>>

\* Another process unlinks a directory entry while the pipeline runs.
EnvDelete ==
    /\ pc \in Pipeline
    /\ \E p \in Deletable :
          /\ exists[p]
          /\ exists' = [exists EXCEPT ![p] = FALSE]
    /\ UNCHANGED <<pc, inputs, mode, scanVars, monVars, monitored_processes, loopVars>>

Next ==
    \/ LoadConfigOk
    \/ LoadConfigFail
    \/ ValidateOk
    \/ ValidateFail
    \/ ScanStep
    \/ ScanDone
    \/ MonitorIterate
    \/ MonitorSampleError
    \/ MonitorExit
    \/ MonitorReturn
    \/ Correlate
    \/ RevokeOk
    \/ RevokeFail
    \/ LoopDone
    \/ EnvDelete

Spec == Init /\ [][Next]_vars

\* The steps of the program itself (everything but the other process).
ProgramStep ==
    \/ LoadConfigOk \/ LoadConfigFail \/ ValidateOk \/ ValidateFail
    \/ ScanStep \/ ScanDone
    \/ MonitorIterate \/ MonitorSampleError \/ MonitorExit \/ MonitorReturn
    \/ Correlate \/ RevokeOk \/ RevokeFail \/ LoopDone

\* The interpreter keeps running the single thread of main() until it exits.
FairSpec == Spec /\ WF_vars(ProgramStep)

\* ================================================================ claims

\* C1: in a non-dry-run run a file's mode differs from its mode
\* at the start only if the file's path is in the inventory and is not in
\* the observed set; observed files and files outside the inventory keep
\* their mode.
C1_Original ==
    ~dry_run =>
        \A f \in Files :
            mode[f] # mode0[f] =>
                /\ \E k \in 1..Len(setuid_setgid_files) : setuid_setgid_files[k][1] = f
                /\ f \notin monitored_processes

\* C2: under dry-run no file's mode ever differs from its mode at the start,
\* and when the run is done every inventory record whose path is not in the
\* observed set has a "would remove" report.
C2_DryRunNoMutation ==
    dry_run =>
        /\ mode = mode0
        /\ pc = "done" =>
              \A k \in 1..Len(setuid_setgid_files) :
                  setuid_setgid_files[k][1] \notin monitored_processes =>
                      \E j \in 1..Len(outcomes) :
                          outcomes[j] = <<setuid_setgid_files[k][1], "would_remove">>

\* A finished dry run that reported two files, one of them privileged still.
C2_Witness ==
    /\ pc = "done"
    /\ dry_run
    /\ Len(outcomes) >= 2
    /\ \A j \in 1..Len(outcomes) : outcomes[j][2] = "would_remove"
    /\ HasBit(mode["/bin/b"], S_ISUID)

\* A step of the correlate/revoke loop leaves the observed set as it was.
C3_ObservedSetFrozen ==
    pc \in {"correlate", "revoke"} => monitored_processes' = monitored_processes

\* C3: the decisions made so far are those of the first records of the
\* inventory, one each and in order, with "used" exactly when the record's
\* path string is in the observed set; when the run is done every record has
\* its decision; and no step of the loop changes the observed set.
C3_Correlator ==
    /\ [](/\ Len(decisions) <= Len(setuid_setgid_files)
          /\ \A k \in 1..Len(decisions) :
                decisions[k] = <<setuid_setgid_files[k][1],
                                 setuid_setgid_files[k][1] \in monitored_processes>>
          /\ pc = "correlate" => Len(decisions) = i - 1
          /\ pc = "revoke" => Len(decisions) = i
          /\ pc = "done" => Len(decisions) = Len(setuid_setgid_files))
    /\ [][C3_ObservedSetFrozen]_vars

\* A finished run that kept /bin/a and decided to revoke the link to it.
C3_Witness ==
    /\ pc = "done"
    /\ \E k \in 1..Len(decisions) : decisions[k] = <<"/bin/a", TRUE>>
    /\ \E k \in 1..Len(decisions) : decisions[k] = <<"/opt/l", FALSE>>

\* C4: when the run is done, remove_privileges was called exactly once, in
\* order, for each record whose path is not in the observed set, whatever
\* failed; the process exits non-zero only before the pipeline; and a run
\* in which a revocation failed goes on to be done.
C4_FailureIsolated ==
    /\ [](/\ pc = "done" =>
                /\ Len(outcomes) = Cardinality({k \in 1..Len(setuid_setgid_files) :
                       setuid_setgid_files[k][1] \notin monitored_processes})
                /\ \A j \in 1..Len(outcomes) :
                      \E k \in j..Len(setuid_setgid_files) :
                          /\ outcomes[j][1] = setuid_setgid_files[k][1]
                          /\ outcomes[j][1] \notin monitored_processes
                          /\ Cardinality({n \in 1..k :
                                 setuid_setgid_files[n][1] \notin monitored_processes}) = j
          /\ pc = "exit1" => outcomes = <<>> /\ scan_idx = 1)
    /\ ((\E j \in 1..Len(outcomes) : outcomes[j][2] = "failed") ~> pc = "done")

\* A finished run where one revocation failed and a later one succeeded.
C4_Witness ==
    /\ pc = "done"
    /\ \E j \in 1..Len(outcomes) :
          /\ outcomes[j][2] = "failed"
          /\ \E n \in (j + 1)..Len(outcomes) : outcomes[n][2] = "removed"

C5_Rank(st) ==
    CASE st = "load_config" -> 0
      [] st = "validate" -> 1
      [] st = "scan" -> 2
      [] st \in {"monitor", "monitor_return"} -> 3
      [] st \in {"correlate", "revoke"} -> 4
      [] OTHER -> 5

\* A step never leads to an earlier stage, nor back into the sampling loop.
C5_NoStepBack ==
    /\ C5_Rank(pc') >= C5_Rank(pc)
    /\ pc = "monitor_return" => pc' # "monitor"

C6_MonitorWindow ==
    pc = "monitor_return" =>
        /\ elapsed >= monitor_time * TicksPerSecond
        /\ elapsed <= monitor_time * TicksPerSecond + PollTicks

\* What a step of monitor_processes does to the set.
C7_Step ==
    /\ pc = "monitor" =>
          /\ created_processes' = created_processes \cup last_sample'
          /\ (elapsed' # elapsed /\ last_skipped') => pc' = "monitor"
    /\ (pc = "monitor_return" /\ pc' = "correlate") =>
          monitored_processes' = created_processes

\* C7: every step of the sampling loop leaves in the set what it held plus
\* the executables of the sample just taken; a sample with a skipped
\* process does not end the loop; main() receives the set as accumulated.
C7_MonitorUnion == [][C7_Step]_vars

\* The sampling loop, after a sample in which a process was skipped, holds
\* /bin/a from an earlier sample and /bin/b from the latest, which did not
\* show /bin/a.
C7_Witness ==
    /\ pc = "monitor"
    /\ created_processes = {"/bin/a", "/bin/b"}
    /\ last_sample = {"/bin/b"}
    /\ last_skipped
    /\ MonitorContinues(elapsed, monitor_time)

\* C8: of the entries the walk has passed, each has at most one record; a
\* record carries the mode of the file the path refers to, which has setuid
\* or setgid, and lies in a listable directory; every entry that is (still)
\* listed, can be stat'ed and has setuid or setgid has its record; entries
\* not yet passed have none.
C8_Scanner ==
    \A n \in 1..Len(WalkOrder) :
        LET p == WalkOrder[n]
            recs == {k \in 1..Len(setuid_setgid_files) : setuid_setgid_files[k][1] = p}
            priv == HasBit(mode0[Target(p)], S_ISUID) \/ HasBit(mode0[Target(p)], S_ISGID)
        IN  /\ Cardinality(recs) <= 1
            /\ n >= scan_idx => recs = {}
            /\ \A k \in recs :
                  /\ setuid_setgid_files[k][2] = mode0[Target(p)]
                  /\ priv
                  /\ Dir(p) = "/opt" => opt_readable
            /\ (n < scan_idx /\ Listed(p) /\ StatOk(p) /\ priv) => recs # {}

\* The walk is over, /opt could not be listed, /bin/b (setgid only) was
\* recorded and the unprivileged /bin/c was not.
C8_Witness ==
    /\ pc = "monitor"
    /\ ~opt_readable
    /\ mode0["/bin/b"] = 34285
    /\ mode0["/bin/c"] = 33261
    /\ setuid_setgid_files = <<<<"/bin/a", mode0["/bin/a"]>>, <<"/bin/b", 34285>>>>

\* C9: with a configuration that is not a mapping, or a monitoring time
\* that is not positive, main() is loading, validating or has exited with
\* status 1, and nothing was scanned, sampled, decided or changed.
C9_RejectedBeforePipeline ==
    (config # "dict" \/ monitor_time <= 0) =>
        /\ pc \in {"load_config", "validate", "exit1"}
        /\ scan_idx = 1
        /\ setuid_setgid_files = <<>>
        /\ elapsed = 0
        /\ created_processes = {}
        /\ monitored_processes = {}
        /\ decisions = <<>>
        /\ outcomes = <<>>
        /\ mode = mode0

\* A valid configuration with --monitor-time 0 has exited with status 1.
C9_Witness ==
    /\ pc = "exit1"
    /\ config = "dict"
    /\ monitor_time = 0

\* What remove_privileges does to a file it is able to change.
C10_Step ==
    (pc = "revoke" /\ pc' # "revoke" /\ ~dry_run /\ ChmodSucceeds(setuid_setgid_files[i][1])) =>
        LET f == Target(setuid_setgid_files[i][1])
        IN  /\ outcomes' = Append(outcomes, <<setuid_setgid_files[i][1], "removed">>)
            /\ ~HasBit(mode'[f], S_ISUID)
            /\ ~HasBit(mode'[f], S_ISGID)
            /\ mode'[f] % S_ISGID = mode[f] % S_ISGID
            /\ mode'[f] \div (2 * S_ISUID) = mode[f] \div (2 * S_ISUID)
            /\ (~HasBit(mode[f], S_ISUID) /\ ~HasBit(mode[f], S_ISGID)) => mode'[f] = mode[f]
            /\ \A g \in Files \ {f} : mode'[g] = mode[g]

\* C10: a non-dry-run revocation of an existing file this process may
\* change succeeds; it leaves setuid and setgid clear and every other bit
\* as it was; on a file whose two bits are already clear it changes nothing.
C10_RevokeIdempotent == [][C10_Step]_vars

\* /bin/a was revoked twice, through its own path and through the link.
C10_Witness ==
    /\ pc = "done"
    /\ \E j \in 1..Len(outcomes) : outcomes[j] = <<"/bin/a", "removed">>
    /\ \E j \in 1..Len(outcomes) : outcomes[j] = <<"/opt/l", "removed">>
    /\ mode["/bin/a"] = 33773

====
